---- MODULE Spec2Model ----
(***************************************************************************)
(* metalsmith-link-checker (lib/index.js): one build invocation of the     *)
(* plugin.  Strings are sequences of one-character strings, so that URL    *)
(* parsing, regular-expression tests, path joining and sorting are         *)
(* computed the way the code computes them.                                *)
(***************************************************************************)
EXTENDS Integers, Sequences, FiniteSets, TLC

\* ------------------------------------------------------------------ bounds
\* Total number of attribute values (citations) over all scanned documents.
MaxCitations == 2
\* Largest options.parallelism tried.
MaxParallelism == 2

\* ----------------------------------------------------------------- strings
\* The characters in use, in ascending UTF-16 code unit order.
Ascii ==
  << "\n", " ", "#", "(", ")", ".", "/", "0", "1", "2", "3", "4", "5", "6", "7",
     "8", "9", ":", "?", "B", "H", "P", "S", "T", "\\", "^", "a", "b", "c", "d",
     "e", "f", "g", "h", "i", "k", "l", "m", "n", "o", "p", "r", "s", "t", "u",
     "w", "x" >>

Code(c) == CHOOSE i \in 1..Len(Ascii) : Ascii[i] = c

Upper == {"B", "H", "P", "S", "T"}
Lower == {"a", "b", "c", "d", "e", "f", "g", "h", "i", "k", "l", "m", "n", "o",
          "p", "r", "s", "t", "u", "w", "x"}
Digit == {"0", "1", "2", "3", "4", "5", "6", "7", "8", "9"}

ToLowerChar(c) ==
  CASE c = "B" -> "b" [] c = "H" -> "h" [] c = "P" -> "p" [] c = "S" -> "s"
    [] c = "T" -> "t" [] OTHER -> c

ToLower(s) == [i \in 1..Len(s) |-> ToLowerChar(s[i])]

\* a < b as JavaScript compares strings (by code unit, a proper prefix first).
RECURSIVE StrLess(_, _)
StrLess(a, b) ==
  IF b = << >> THEN FALSE
  ELSE IF a = << >> THEN TRUE
  ELSE IF a[1] = b[1] THEN StrLess(Tail(a), Tail(b))
  ELSE Code(a[1]) < Code(b[1])

StartsWith(s, p) == Len(p) <= Len(s) /\ SubSeq(s, 1, Len(p)) = p
EndsWith(s, p) == Len(p) <= Len(s) /\ SubSeq(s, Len(s) - Len(p) + 1, Len(s)) = p
Includes(s, p) == \E i \in 1..(Len(s) + 1) : StartsWith(SubSeq(s, i, Len(s)), p)

\* String.prototype.replace(/[/\\]/g, '/')
NormalizeSeparators(s) == [i \in 1..Len(s) |-> IF s[i] = "\\" THEN "/" ELSE s[i]]

\* Array.prototype.join
RECURSIVE Join(_, _)
Join(parts, sep) ==
  IF parts = << >> THEN << >>
  ELSE IF Len(parts) = 1 THEN parts[1]
  ELSE parts[1] \o sep \o Join(Tail(parts), sep)

\* String.prototype.split on a one-character separator
RECURSIVE Split(_, _)
Split(s, sep) ==
  IF \A i \in 1..Len(s) : s[i] # sep THEN << s >>
  ELSE LET i == CHOOSE k \in 1..Len(s) :
                  s[k] = sep /\ \A j \in 1..(k - 1) : s[j] # sep
       IN << SubSeq(s, 1, i - 1) >> \o Split(SubSeq(s, i + 1, Len(s)), sep)

\* Template literal `${n}` of a non-negative integer.
RECURSIVE NumToStr(_)
NumToStr(n) ==
  LET d == << "0", "1", "2", "3", "4", "5", "6", "7", "8", "9" >>[(n % 10) + 1]
  IN IF n < 10 THEN << d >> ELSE NumToStr(n \div 10) \o << d >>

\* Array.prototype.sort() with the default comparator (insertion into a
\* sorted prefix; the result is the ascending arrangement of the elements).
RECURSIVE Insert(_, _)
Insert(x, sorted) ==
  IF sorted = << >> THEN << x >>
  ELSE IF StrLess(x, sorted[1]) THEN << x >> \o sorted
  ELSE << sorted[1] >> \o Insert(x, Tail(sorted))

\* Mutant: the array is left in insertion order.
Unsorted(arr) == arr

RECURSIVE Sort(_)
Sort(arr) == IF arr = << >> THEN << >> ELSE Insert(arr[1], Sort(Tail(arr)))

\* -------------------------------------------------------------- JS objects
\* A plain object is the sequence of its own [key, val] entries in insertion
\* order; undefined is the value of a missing key.
\* undefined and null, kept apart from every string of characters.
Undefined == << "undefined" >>
Null == << "null" >>

Keys(obj) == [i \in 1..Len(obj) |-> obj[i].key]
Has(obj, k) == \E i \in 1..Len(obj) : obj[i].key = k
Get(obj, k) ==
  IF Has(obj, k) THEN obj[CHOOSE i \in 1..Len(obj) : obj[i].key = k].val
  ELSE Undefined
Put(obj, k, v) ==
  IF Has(obj, k)
  THEN [i \in 1..Len(obj) |-> IF obj[i].key = k THEN [key |-> k, val |-> v] ELSE obj[i]]
  ELSE Append(obj, [key |-> k, val |-> v])
Delete(obj, k) == SelectSeq(obj, LAMBDA e : e.key # k)

\* Property names every plain object inherits from Object.prototype (those
\* spelt with the characters in use).
Constructor == << "c", "o", "n", "s", "t", "r", "u", "c", "t", "o", "r" >>
ToStringKey == << "t", "o", "S", "t", "r", "i", "n", "g" >>
ObjectPrototypeKeys == {Constructor, ToStringKey}

\* k in obj: own and inherited properties.
In(obj, k) == Has(obj, k) \/ k \in ObjectPrototypeKeys

\* ------------------------------------------------------------ path (posix)
Slash == << "/" >>
Dot == << "." >>
DotDot == << ".", "." >>

\* path.dirname
dirname(path) ==
  IF path = << >> THEN Dot
  ELSE LET hasRoot == path[1] = "/"
           ends == {i \in 2..Len(path) :
                      path[i] = "/" /\ \E j \in (i + 1)..Len(path) : path[j] # "/"}
           end == CHOOSE i \in ends : \A j \in ends : j <= i
       IN IF ends = {} THEN (IF hasRoot THEN Slash ELSE Dot)
          ELSE IF hasRoot /\ end = 2 THEN << "/", "/" >>
          ELSE SubSeq(path, 1, end - 1)

\* normalizeString: resolve "." and ".." segments
RECURSIVE normalizeSegments(_, _, _)
normalizeSegments(segs, res, allowAboveRoot) ==
  IF segs = << >> THEN res
  ELSE LET seg == segs[1]
           rest == Tail(segs)
       IN IF seg = << >> \/ seg = Dot THEN normalizeSegments(rest, res, allowAboveRoot)
          ELSE IF seg = DotDot
          THEN IF res # << >> /\ res[Len(res)] # DotDot
               THEN normalizeSegments(rest, SubSeq(res, 1, Len(res) - 1), allowAboveRoot)
               ELSE IF allowAboveRoot
               THEN normalizeSegments(rest, Append(res, DotDot), allowAboveRoot)
               ELSE normalizeSegments(rest, res, allowAboveRoot)
          ELSE normalizeSegments(rest, Append(res, seg), allowAboveRoot)

\* path.normalize
normalize(path) ==
  IF path = << >> THEN Dot
  ELSE LET isAbsolute == path[1] = "/"
           trailingSeparator == path[Len(path)] = "/"
           norm == Join(normalizeSegments(Split(path, "/"), << >>, ~isAbsolute), Slash)
       IN IF norm = << >>
          THEN (IF isAbsolute THEN Slash ELSE IF trailingSeparator THEN << ".", "/" >> ELSE Dot)
          ELSE LET withSep == IF trailingSeparator THEN norm \o Slash ELSE norm
               IN IF isAbsolute THEN Slash \o withSep ELSE withSep

\* path.join of two arguments
join(a, b) ==
  LET joined == IF a = << >> THEN b
                ELSE IF b = << >> THEN a
                ELSE a \o Slash \o b
  IN IF joined = << >> THEN Dot ELSE normalize(joined)

\* --------------------------------------------------------------- urlParse
SchemeChars == Upper \cup Lower \cup Digit \cup {"+", "-", "."}

\* Index of the ":" ending a URL scheme, 0 when the input has none.
SchemeEnd(input) ==
  LET colons == {i \in 2..Len(input) :
                   /\ input[i] = ":"
                   /\ input[1] \in Upper \cup Lower
                   /\ \A j \in 1..(i - 1) : input[j] \in SchemeChars}
  IN IF colons = {} THEN 0 ELSE CHOOSE i \in colons : \A j \in colons : i <= j

\* What follows "scheme:" once the authority slashes are dropped, up to the path.
RECURSIVE DropSlashes(_)
DropSlashes(s) ==
  IF s # << >> /\ s[1] \in {"/", "\\"} THEN DropSlashes(Tail(s)) ELSE s

HostOf(rest) ==
  LET h == DropSlashes(rest)
      stops == {i \in 1..Len(h) : h[i] \in {"/", "\\", "?", "#"}}
  IN IF stops = {} THEN h
     ELSE SubSeq(h, 1, (CHOOSE i \in stops : \A j \in stops : i <= j) - 1)

HttpColon == << "h", "t", "t", "p", ":" >>
HttpsColon == << "h", "t", "t", "p", "s", ":" >>

\* new URL(input) without a base: it throws unless input starts with a scheme,
\* and for http/https unless a host follows; urlParse then returns {}.
urlParse(input) ==
  LET e == SchemeEnd(input)
      protocol == ToLower(SubSeq(input, 1, e))
      rest == SubSeq(input, e + 1, Len(input))
  IN IF e = 0 THEN [protocol |-> Undefined]
     ELSE IF protocol \in {HttpColon, HttpsColon} /\ HostOf(rest) = << >>
     THEN [protocol |-> Undefined]
     ELSE [protocol |-> protocol]

\* The keys of protocolValidators (both map to validUrl).
protocolValidators == {HttpColon, HttpsColon}

\* ------------------------------------------------------------------ RegExp
\* Patterns are literal characters with an optional leading "^"; a pattern
\* with an unbalanced parenthesis does not compile.
Count(s, c) == Cardinality({i \in 1..Len(s) : s[i] = c})
RegExpThrows(pattern) == Count(pattern, "(") # Count(pattern, ")")
RegExpTest(source, str) ==
  IF source # << >> /\ source[1] = "^" THEN StartsWith(str, Tail(source))
  ELSE Includes(str, source)

\* ------------------------------------------------------ flipObjectOfArrays
RECURSIVE flipPush(_, _, _)
flipPush(output, key, vals) ==
  IF vals = << >> THEN output
  ELSE LET val == vals[1]
           out1 == IF ~Has(output, val) THEN Put(output, val, << >>) ELSE output
       IN flipPush(Put(out1, val, Append(Get(out1, val), key)), key, Tail(vals))

RECURSIVE flipFrom(_, _)
flipFrom(input, output) ==
  IF input = << >> THEN output
  ELSE flipFrom(Tail(input), flipPush(output, input[1].key, input[1].val))

\* Mutant: one entry per citation instead of one per distinct value.
RECURSIVE flipPerCitationFrom(_)
flipPerCitationFrom(input) ==
  IF input = << >> THEN << >>
  ELSE [i \in 1..Len(input[1].val) |-> [key |-> input[1].val[i], val |-> << input[1].key >>]]
         \o flipPerCitationFrom(Tail(input))

flipPerCitation(input) == flipPerCitationFrom(input)

flipObjectOfArrays(input) == flipFrom(input, << >>)

\* --------------------------------------------------------------- validLocal
\* dest.replace(/#[^/\\]*$/, '')
StripAnchor(dest) ==
  LET hashes == {i \in 1..Len(dest) :
                   dest[i] = "#" /\ \A j \in (i + 1)..Len(dest) : dest[j] \notin {"/", "\\"}}
  IN IF hashes = {} THEN dest
     ELSE SubSeq(dest, 1, (CHOOSE i \in hashes : \A j \in hashes : i <= j) - 1)

IndexHtml == << "i", "n", "d", "e", "x", ".", "h", "t", "m", "l" >>
IsSelf(p) == p = << >> \/ p = Dot \/ p = << ".", "/" >>

validLocal(files, src, dest) ==
  LET stripped == StripAnchor(dest)
      linkPath == join(dirname(src), stripped)
  IN IF IsSelf(stripped) THEN TRUE
     ELSE IF IsSelf(linkPath) THEN TRUE
     ELSE In(files, linkPath) \/ In(files, join(linkPath, IndexHtml))

\* ------------------------------------------------------------- the inputs
AHtml == << "a", ".", "h", "t", "m", "l" >>
DBHtmlRaw == << "d", "\\", "b", ".", "h", "t", "m", "l" >>
DBHtml == << "d", "/", "b", ".", "h", "t", "m", "l" >>
XPng == << "x", ".", "p", "n", "g" >>

HttpA == << "h", "t", "t", "p", ":", "/", "/", "a" >>
HttpsB == << "h", "t", "t", "p", "s", ":", "/", "/", "b" >>
MailtoM == << "m", "a", "i", "l", "t", "o", ":", "m" >>

\* The attribute values a document may hold (never empty: the selector
\* [attr!=''] drops empty values).
Links == {HttpA, HttpsB, MailtoM, XPng}

\* References exercising the dispatch by scheme: a second scheme without a
\* validator, and an http reference that names no host.
Tel1 == << "t", "e", "l", ":", "1" >>
HttpNoHost == << "h", "t", "t", "p", ":", "/", "/" >>
DispatchLinks == {HttpA, HttpsB, MailtoM, Tel1, XPng, HttpNoHost}

\* Documents at two depths, the index document of a directory, and local
\* references: to the citing document itself, to its directory, to a file
\* and to a directory.
ABHtml == << "a", "/", "b", ".", "h", "t", "m", "l" >>
CHtml == << "c", ".", "h", "t", "m", "l" >>
AIndexHtml == << "a", "/", "i", "n", "d", "e", "x", ".", "h", "t", "m", "l" >>
DotSlash == << ".", "/" >>
HashTop == << "#", "t", "o", "p" >>
UpA == << ".", ".", "/", "a" >>
BHtml == << "b", ".", "h", "t", "m", "l" >>
DirA == << "a" >>
DirASlash == << "a", "/" >>
DotSlashConstructor == DotSlash \o Constructor
LocalLinks == {<< "." >>, DotSlash, HashTop, UpA, BHtml, DirA, DirASlash, DotSlashConstructor,
               XPng, HttpA}

\* References to a file with a fragment, with a fragment holding a "/", and
\* with a query string.
XPngTop == XPng \o HashTop
XPngRoute == XPng \o << "#", "/", "r" >>
XPngQuery == XPng \o << "?", "1" >>
FragmentLinks == {XPng, XPngTop, XPngRoute, XPngQuery, HashTop, HttpA}

AllLinks == Links \cup DispatchLinks \cup LocalLinks \cup FragmentLinks

\* Ignore patterns.
PatHttp == << "^", "h", "t", "t", "p", ":" >>
PatX == << "x" >>
PatBad == << "(" >>
IgnoreLists == {<< >>, << PatHttp >>, << PatX, PatHttp >>, << PatHttp, PatBad >>}

\* Response status codes a server may send.
StatusCodes == {200, 301, 399, 400, 405, 599, 600}

\* Messages of the errors a request may emit.
SocketHangUp == << "s", "o", "c", "k", "e", "t", " ", "h", "a", "n", "g", " ", "u", "p" >>
ErrorMessages == {<< >>, SocketHangUp}

SeqsUpTo(S, n) == UNION {[1..k -> S] : k \in 0..n}

\* ------------------------------------------------------------------- state
VARIABLES
  files,                \* the file set handed to the plugin: filename -> link values
  options,              \* the merged options of the plugin instance
  pc,                   \* "idle", "running", "finished", "threw" or "crashed"
  normalizedFilenames,  \* closure of the run
  filenamesToLinks,     \* closure of the run
  linksToFilenames,     \* closure of the run (object iterated by mapValuesLimit)
  nextIdx,              \* async: position of the key iterator
  running,              \* async: iteratees started and not called back
  iterDone,             \* async: the `done` flag of eachOfLimit
  result,               \* async: newObj, link -> validation error or null
  reqs,                 \* per link, the HTTP requests issued for it, oldest first
  localChecks,          \* the (src, dest) pairs validLocal was called with
  filenamesToLinkErrors,\* the report mapping built by the final callback
  doneCalls,            \* the arguments of the calls of done, oldest first
  callbackCalls,        \* per link, how often its validatorCallback was called
  previous              \* the earlier runs of the plugin instance, as they ended

vars == << files, options, pc, normalizedFilenames, filenamesToLinks, linksToFilenames,
           nextIdx, running, iterDone, result, reqs, localChecks,
           filenamesToLinkErrors, doneCalls, callbackCalls, previous >>

\* ---------------------------------------------------------------- htmlLinks
\* minimatch.filter('**/*.html')
MatchesHtmlPattern(filename) ==
  /\ EndsWith(filename, << ".", "h", "t", "m", "l" >>)
  /\ Len(filename) > 5
  /\ filename[Len(filename) - 5] \notin {"/", "\\"}

RECURSIVE htmlLinksFrom(_, _)
htmlLinksFrom(fs, obj) ==
  IF fs = << >> THEN obj
  ELSE IF MatchesHtmlPattern(fs[1].key)
  THEN htmlLinksFrom(Tail(fs), Put(obj, NormalizeSeparators(fs[1].key), fs[1].val))
  ELSE htmlLinksFrom(Tail(fs), obj)

htmlLinks(fs) == htmlLinksFrom(fs, << >>)

RECURSIVE normalizeFilenames(_, _)
normalizeFilenames(fs, reducer) ==
  IF fs = << >> THEN reducer
  ELSE normalizeFilenames(Tail(fs), Put(reducer, NormalizeSeparators(fs[1].key), TRUE))

\* ------------------------------------------------------- the final callback
\* JavaScript truthiness of a slot of the result mapping.
Truthy(v) == v # Undefined /\ v # Null /\ v # << >>

\* `${link} (${result[link]})`
ErrorLine(link, reason) == link \o << " ", "(" >> \o reason \o << ")" >>

linkErrorsOf(links, res) ==
  LET bad == SelectSeq(links, LAMBDA link : Truthy(Get(res, link)))
  IN [i \in 1..Len(bad) |-> ErrorLine(bad[i], Get(res, bad[i]))]

RECURSIVE linkErrorsFrom(_, _, _)
linkErrorsFrom(f2l, res, obj) ==
  IF f2l = << >> THEN obj
  ELSE LET linkErrors == linkErrorsOf(f2l[1].val, res)
       IN linkErrorsFrom(Tail(f2l), res,
                         IF Len(linkErrors) > 0 THEN Put(obj, f2l[1].key, linkErrors) ELSE obj)

BrokenLinksFound ==
  << "B", "r", "o", "k", "e", "n", " ", "l", "i", "n", "k", "s", " ",
     "f", "o", "u", "n", "d", ":", "\n", "\n" >>

\* The section of one file: `${filename}:\n${output}`, its lines sorted.
Section(errors, filename) ==
  LET sorted == Sort(Get(errors, filename))
      output == Join([i \in 1..Len(sorted) |-> << " ", " " >> \o sorted[i]], << "\n" >>)
  IN filename \o << ":", "\n" >> \o output

Message(errors) ==
  LET names == Sort(Keys(errors))
  IN BrokenLinksFound
       \o Join([i \in 1..Len(names) |-> Section(errors, names[i])], << "\n", "\n" >>)

\* filenamesToLinkErrors[filename].sort() sorts each list in place.
SortedInPlace(errors) ==
  [i \in 1..Len(errors) |-> [key |-> errors[i].key, val |-> Sort(errors[i].val)]]

\* (err, result) => { ... } with err null: build the report and call done.
\* After done(message) there is no return, so done() follows it.
FinalCallback(s) ==
  LET errors == linkErrorsFrom(s.filenamesToLinks, s.result, << >>)
  IN IF Len(errors) > 0
     THEN [s EXCEPT !.filenamesToLinkErrors = SortedInPlace(errors),
                    !.doneCalls = @ \o << Message(errors), Undefined >>,
                    !.pc = "finished"]
     ELSE [s EXCEPT !.filenamesToLinkErrors = errors,
                    !.doneCalls = Append(@, Undefined),
                    !.pc = "finished"]

\* ------------------------------------------------------------------ validUrl
RetryStatus == 405
ErrorStatusMin == 400
ErrorStatusMax == 599

NewRequest(method) ==
  [method |-> method, state |-> "pending", status |-> 0, message |-> Undefined]

\* library.request(link, {method, ...}, onResponse).on('error', onError).end()
validUrl(s, link, method) == [s EXCEPT !.reqs[link] = Append(@, NewRequest(method))]

\* Mutant: a 405 is never retried.
NeverRetry(statusCode, method) == FALSE

\* Mutant: a 405 is retried whatever the method was.
RetryAnyMethod(statusCode, method) == statusCode = RetryStatus

\* res.statusCode === 405 && method !== 'GET'
ShouldRetryAsGet(statusCode, method) == statusCode = RetryStatus /\ method # "GET"

\* Mutant: the bounds of the error band are excluded.
IsHttpErrorExclusive(statusCode) == statusCode > ErrorStatusMin /\ statusCode < ErrorStatusMax

\* res.statusCode >= 400 && res.statusCode <= 599
IsHttpError(statusCode) == statusCode >= ErrorStatusMin /\ statusCode <= ErrorStatusMax

HttpReason(statusCode) == << "H", "T", "T", "P", " " >> \o NumToStr(statusCode)

\* ------------------------------------------------- async.mapValuesLimit
NotFound == << "n", "o", "t", " ", "f", "o", "u", "n", "d" >>

\* Mutant: the limit is compared with <=.
MayStartOneMore(run, limit, done) == run <= limit /\ ~done

\* while (running < limit && !done)
MayStart(run, limit, done) == run < limit /\ ~done

RECURSIVE replenish(_)
RECURSIVE iterateeCallback(_, _)

\* The iteratee's callback(null, value), (err, result) => { newObj[key] =
\* result; next(err) } of mapValuesLimit: the slot is written, then next, which
\* is eachOfLimit's iterateeCallback wrapped by onlyOnce, runs.  Called again
\* for the same key, onlyOnce throws "Callback was already called." out of the
\* event listener that called it: an uncaught exception, the process dies.
Callback(s, link, value, looping) ==
  LET s1 == [s EXCEPT !.result = Put(@, link, value), !.callbackCalls[link] = @ + 1]
  IN IF s.callbackCalls[link] > 0 THEN [s1 EXCEPT !.pc = "crashed"]
     ELSE iterateeCallback(s1, looping)

\* (filenames, link, callback) => { ... }
Iteratee(s, link, looping) ==
  LET linkUrl == urlParse(link)
      filenames == Get(s.linksToFilenames, link)
      badFilenames ==
        SelectSeq(filenames, LAMBDA f : ~validLocal(s.normalizedFilenames, f, link))
  IN IF linkUrl.protocol # Undefined
     THEN IF linkUrl.protocol \in protocolValidators
          THEN validUrl(s, link, "HEAD")
          ELSE Callback(s, link, Null, looping)
     ELSE Callback([s EXCEPT !.localChecks =
                               @ \cup {<< filenames[i], link >> : i \in 1..Len(filenames)}],
                   link, IF Len(badFilenames) = 0 THEN Null ELSE NotFound, looping)

iterateeCallback(s, looping) ==
  LET s1 == [s EXCEPT !.running = @ - 1]
  IN IF s1.iterDone /\ s1.running <= 0 THEN FinalCallback(s1)
     ELSE IF ~looping THEN replenish(s1)
     ELSE s1

replenish(s) ==
  IF MayStart(s.running, s.limit, s.iterDone)
  THEN IF s.nextIdx > Len(s.linksToFilenames)
       THEN LET s1 == [s EXCEPT !.iterDone = TRUE]
            IN IF s1.running <= 0 THEN FinalCallback(s1) ELSE s1
       ELSE LET link == s.linksToFilenames[s.nextIdx].key
                s1 == [s EXCEPT !.nextIdx = @ + 1, !.running = @ + 1]
            IN replenish(Iteratee(s1, link, TRUE))
  ELSE s

\* ------------------------------------------------------ ignore processing
\* Mutant: only the first pattern is compiled before the validation starts.
FirstThrows(ignore) == ignore # << >> /\ RegExpThrows(ignore[1].source)

\* options.ignore.map((pattern) => new RegExp(pattern)) throws on a bad pattern.
CompileThrows(ignore) == \E i \in 1..Len(ignore) : RegExpThrows(ignore[i].source)

\* Mutant: the pattern is compiled from its text, which for a RegExp is
\* /source/.
CompileFromText(ignore) ==
  [i \in 1..Len(ignore) |->
     [re |-> TRUE,
      source |-> IF ignore[i].re THEN << "/" >> \o ignore[i].source \o << "/" >>
                 ELSE ignore[i].source]]

\* new RegExp(pattern) of a string, or of a RegExp (a copy with its source)
Compile(ignore) == [i \in 1..Len(ignore) |-> [re |-> TRUE, source |-> ignore[i].source]]

\* Mutant: every pattern must match.
IgnoredByEvery(ignore, link) == \A i \in 1..Len(ignore) : RegExpTest(ignore[i].source, link)

\* options.ignore.some((re) => re.test(link))
Ignored(ignore, link) == \E i \in 1..Len(ignore) : RegExpTest(ignore[i].source, link)

\* .filter(...).forEach((link) => delete linksToFilenames[link])
DeleteIgnored(l2f, ignore) == SelectSeq(l2f, LAMBDA e : ~Ignored(ignore, e.key))

\* ------------------------------------------------------------------ actions
Current ==
  [limit |-> options.parallelism,
   pc |-> pc,
   normalizedFilenames |-> normalizedFilenames,
   filenamesToLinks |-> filenamesToLinks,
   linksToFilenames |-> linksToFilenames,
   nextIdx |-> nextIdx,
   running |-> running,
   iterDone |-> iterDone,
   result |-> result,
   reqs |-> reqs,
   localChecks |-> localChecks,
   filenamesToLinkErrors |-> filenamesToLinkErrors,
   doneCalls |-> doneCalls,
   callbackCalls |-> callbackCalls]

Becomes(s) ==
  /\ pc' = s.pc
  /\ normalizedFilenames' = s.normalizedFilenames
  /\ filenamesToLinks' = s.filenamesToLinks
  /\ linksToFilenames' = s.linksToFilenames
  /\ nextIdx' = s.nextIdx
  /\ running' = s.running
  /\ iterDone' = s.iterDone
  /\ result' = s.result
  /\ reqs' = s.reqs
  /\ localChecks' = s.localChecks
  /\ filenamesToLinkErrors' = s.filenamesToLinkErrors
  /\ doneCalls' = s.doneCalls
  /\ callbackCalls' = s.callbackCalls

\* The file sets of a build: two documents and a third file, the documents
\* holding at most MaxCitations attribute values between them, drawn from links.
FileSets(docA, docB, others, links) ==
  {<< [key |-> docA, val |-> c[1]], [key |-> docB, val |-> c[2]], [key |-> other, val |-> << >>] >> :
     c \in {cs \in SeqsUpTo(links, MaxCitations) \X SeqsUpTo(links, MaxCitations) :
              Len(cs[1]) + Len(cs[2]) <= MaxCitations},
     other \in others}

\* The state in which the plugin instance, configured with one of the ignore
\* lists, is handed one of the file sets.
InitOf(fileSets, ignoreLists) ==
  /\ files \in fileSets
  /\ \E ig \in ignoreLists, par \in 1..MaxParallelism :
       options = [ignore |-> [i \in 1..Len(ig) |-> [re |-> FALSE, source |-> ig[i]]],
                  parallelism |-> par]
  /\ pc = "idle"
  /\ normalizedFilenames = << >>
  /\ filenamesToLinks = << >>
  /\ linksToFilenames = << >>
  /\ nextIdx = 1
  /\ running = 0
  /\ iterDone = FALSE
  /\ result = << >>
  /\ reqs = [link \in AllLinks |-> << >>]
  /\ localChecks = {}
  /\ filenamesToLinkErrors = << >>
  /\ doneCalls = << >>
  /\ callbackCalls = [link \in AllLinks |-> 0]
  /\ previous = << >>

Init == InitOf(FileSets(AHtml, DBHtmlRaw, {XPng}, Links), IgnoreLists)

\* The closures of a call of the plugin function before its first statement.
Fresh ==
  [limit |-> options.parallelism,
   pc |-> "running",
   normalizedFilenames |-> << >>,
   filenamesToLinks |-> << >>,
   linksToFilenames |-> << >>,
   nextIdx |-> 1,
   running |-> 0,
   iterDone |-> FALSE,
   result |-> << >>,
   reqs |-> [link \in AllLinks |-> << >>],
   localChecks |-> {},
   filenamesToLinkErrors |-> << >>,
   doneCalls |-> << >>,
   callbackCalls |-> [link \in AllLinks |-> 0]]

\* The plugin function (files, metalsmith, done) => { ... } up to its return:
\* the closures, the ignore processing and the synchronous part of
\* async.mapValuesLimit.
PluginFunction ==
  LET f2l == htmlLinks(files)
      s0 == [Fresh EXCEPT !.normalizedFilenames = normalizeFilenames(files, << >>),
                          !.filenamesToLinks = f2l,
                          !.linksToFilenames = flipObjectOfArrays(f2l)]
  IN IF CompileThrows(options.ignore)
     THEN /\ Becomes([s0 EXCEPT !.pc = "threw"])
          /\ UNCHANGED << files, options >>
     ELSE LET regexps == Compile(options.ignore)
              s1 == [s0 EXCEPT !.linksToFilenames = DeleteIgnored(@, regexps)]
          IN /\ options' = [options EXCEPT !.ignore = regexps]
             /\ Becomes(replenish(s1))
             /\ UNCHANGED files

\* The build calls the plugin function.
Invoke ==
  /\ pc = "idle"
  /\ PluginFunction
  /\ UNCHANGED previous

\* A later build calls the plugin function of the same instance again, with
\* the same files and a new done.
Reinvoke ==
  /\ pc \in {"finished", "threw"}
  /\ previous = << >>
  /\ previous' = << [pc |-> pc, doneCalls |-> doneCalls, reqs |-> reqs] >>
  /\ PluginFunction

Last(link) == reqs[link][Len(reqs[link])]
Settled(s, link, state, statusCode, message) ==
  [s EXCEPT !.reqs[link][Len(reqs[link])] =
              [@ EXCEPT !.state = state, !.status = statusCode, !.message = message]]

\* The servers are deterministic: a request that an earlier run of the
\* instance issued too ends as it ended then.
SameAsBefore(link, state, statusCode, message) ==
  \A k \in 1..Len(previous) :
    Len(previous[k].reqs[link]) >= Len(reqs[link]) =>
      LET before == previous[k].reqs[link][Len(reqs[link])]
      IN before.state = state /\ before.status = statusCode /\ before.message = message

\* (res) => { ... }: the response listener of the request
OnResponse(s, link, method, statusCode) ==
  IF ShouldRetryAsGet(statusCode, method) THEN validUrl(s, link, "GET")
  ELSE IF IsHttpError(statusCode) THEN Callback(s, link, HttpReason(statusCode), FALSE)
  ELSE Callback(s, link, Null, FALSE)

\* (err) => { asyncCallback(null, err.message) }: the 'error' listener
OnError(s, link, message) == Callback(s, link, message, FALSE)

\* The server answers the open request of link with statusCode.
Response(link, statusCode) ==
  /\ pc # "crashed"
  /\ Len(reqs[link]) > 0
  /\ Last(link).state = "pending"
  /\ SameAsBefore(link, "response", statusCode, Undefined)
  /\ Becomes(OnResponse(Settled(Current, link, "response", statusCode, Undefined),
                        link, Last(link).method, statusCode))
  /\ UNCHANGED << files, options, previous >>

\* The open request of link emits 'error' with an Error of the given message.
Error(link, message) ==
  /\ pc # "crashed"
  /\ Len(reqs[link]) > 0
  /\ Last(link).state = "pending"
  /\ SameAsBefore(link, "error", 0, message)
  /\ Becomes(OnError(Settled(Current, link, "error", 0, message), link, message))
  /\ UNCHANGED << files, options, previous >>

\* The server of link never answers: the socket of the open request stays idle
\* for options.timeout and the request emits 'timeout'.  No 'timeout' listener
\* is registered and nothing destroys the request, so it stays open, unanswered.
\* (A server answering later than that is the Response or Error action: the
\* 'timeout' event changes nothing they read.)
Timeout(link) ==
  /\ pc # "crashed"
  /\ Len(reqs[link]) > 0
  /\ Last(link).state = "pending"
  /\ SameAsBefore(link, "timeout", 0, Undefined)
  /\ Becomes(Settled(Current, link, "timeout", 0, Undefined))
  /\ UNCHANGED << files, options, previous >>

\* A request that has got its response emits 'error' (its socket fails while
\* the response, which nothing consumes, is still attached to it): the 'error'
\* listener of validUrl is still registered and runs.
LateError(link, i, message) ==
  /\ pc \in {"running", "finished"}
  /\ i \in 1..Len(reqs[link])
  /\ reqs[link][i].state = "response"
  /\ Becomes(OnError([Current EXCEPT !.reqs[link][i] =
                                      [@ EXCEPT !.state = "responseThenError",
                                                !.message = message]],
                      link, message))
  /\ UNCHANGED << files, options, previous >>

Next ==
  \/ Invoke
  \/ \E link \in AllLinks, statusCode \in StatusCodes : Response(link, statusCode)
  \/ \E link \in AllLinks, message \in ErrorMessages : Error(link, message)
  \/ \E link \in AllLinks : Timeout(link)

Spec == Init /\ [][Next]_vars

\* The same plugin handed documents whose attribute values cover the dispatch
\* by scheme.
InitDispatch == InitOf(FileSets(AHtml, DBHtmlRaw, {XPng}, DispatchLinks), {<< >>, << PatX >>})
SpecDispatch == InitDispatch /\ [][Next]_vars

\* The same plugin handed the documents in descending order of their paths.
InitReport == InitOf(FileSets(DBHtmlRaw, AHtml, {XPng}, Links), {<< >>})
SpecReport == InitReport /\ [][Next]_vars

\* The same plugin handed a nested and a top-level document citing local
\* references, next to an image or the index document of the directory.
InitLocal == InitOf(FileSets(ABHtml, CHtml, {XPng, AIndexHtml}, LocalLinks), {<< >>})
SpecLocal == InitLocal /\ [][Next]_vars

\* The same plugin handed documents citing a file with fragments and a query.
InitFragment == InitOf(FileSets(AHtml, DBHtmlRaw, {XPng}, FragmentLinks), {<< >>})
SpecFragment == InitFragment /\ [][Next]_vars

\* The same plugin with requests that fail after they were answered.
LateLinks == {HttpA, HttpsB, XPng}
InitLate == InitOf(FileSets(AHtml, DBHtmlRaw, {XPng}, LateLinks), {<< >>})
NextLate ==
  \/ Next
  \/ \E link \in AllLinks, i \in 1..2, message \in ErrorMessages : LateError(link, i, message)
SpecLate == InitLate /\ [][NextLate]_vars

\* Two builds in succession with one plugin instance.
TwiceLinks == {HttpA, MailtoM, XPng}
InitTwice == InitOf(FileSets(AHtml, DBHtmlRaw, {XPng}, TwiceLinks), IgnoreLists)
NextTwice == Next \/ Reinvoke
SpecTwice == InitTwice /\ [][NextTwice]_vars

\* ------------------------------------------------ vocabulary of the claims
\* The scanned documents (indices into files) and what they cite.
Scanned == {i \in 1..Len(files) : MatchesHtmlPattern(files[i].key)}
DocName(i) == NormalizeSeparators(files[i].key)
CitedBy(i) == {files[i].val[j] : j \in 1..Len(files[i].val)}
Citing(link) == {i \in Scanned : link \in CitedBy(i)}
Citations(link) ==
  Cardinality({<< i, j >> \in Scanned \X (1..MaxCitations + 1) :
                 j <= Len(files[i].val) /\ files[i].val[j] = link})
Cited == {link \in Links : Citing(link) # {}}

\* The reference matches one of the configured ignore patterns.
MatchesIgnore(link) ==
  \E i \in 1..Len(options.ignore) : RegExpTest(options.ignore[i].source, link)

\* The reference has scheme http or https.
IsHttpRef(link) ==
  \/ StartsWith(link, << "h", "t", "t", "p", ":", "/", "/" >>)
  \/ StartsWith(link, << "h", "t", "t", "p", "s", ":", "/", "/" >>)

Probed == {link \in Links : link \in Cited /\ IsHttpRef(link) /\ ~MatchesIgnore(link)}

Requests(link, method) == {i \in 1..Len(reqs[link]) : reqs[link][i].method = method}

\* The calls of done so far.
IsReport(arg) == StartsWith(arg, BrokenLinksFound)
FailureSignalled == \E i \in 1..Len(doneCalls) : IsReport(doneCalls[i])
SuccessSignalled == \E i \in 1..Len(doneCalls) : doneCalls[i] = Undefined

\* The lines reported for a scanned document.
ReportLines(i) ==
  LET lines == Get(filenamesToLinkErrors, DocName(i))
  IN IF Has(filenamesToLinkErrors, DocName(i)) THEN {lines[j] : j \in 1..Len(lines)} ELSE {}
ReportedFor(i, link) ==
  \E line \in ReportLines(i) : StartsWith(line, link \o << " ", "(" >>)

\* The outcome recorded for a reference is an error (a non-empty reason).
ErrorOutcome(link) == Has(result, link) /\ Truthy(Get(result, link))

\* ------------------------------------------------------------------ claims

\* C1: a finished run has signalled failure exactly when some scanned
\* document cites a non-ignored reference whose outcome is an error; with no
\* such reference the only signal is success; and a run that signalled
\* failure has not also signalled success.
C1_FailureIffBrokenAndNeverBoth ==
  pc = "finished" =>
    LET broken == {link \in Cited : ~MatchesIgnore(link) /\ ErrorOutcome(link)}
    IN /\ FailureSignalled <=> broken # {}
       /\ broken = {} => doneCalls = << Undefined >>
       /\ ~(FailureSignalled /\ SuccessSignalled)

\* C2: no reference gets more than one HEAD request and only cited,
\* non-ignored http/https references get one; when the run has finished each
\* of them got exactly one, however often it is cited.
C2_OneHeadPerDistinctRemote ==
  /\ \A link \in Links :
       /\ Cardinality(Requests(link, "HEAD")) <= 1
       /\ Requests(link, "HEAD") # {} => link \in Probed
  /\ pc = "finished" =>
       \A link \in Probed : Cardinality(Requests(link, "HEAD")) = 1

\* C2 witness: a finished run in which a remote reference cited twice was
\* probed by one HEAD request.
C2_Witness ==
  /\ pc = "finished"
  /\ \E link \in Probed :
       Citations(link) >= 2 /\ Cardinality(Requests(link, "HEAD")) = 1

\* The remote references whose probe has started and has not delivered its
\* outcome.
InFlight == {link \in Links : Len(reqs[link]) > 0 /\ ~Has(result, link)}

\* C3: at most options.parallelism remote references are in flight.
C3_InFlightAtMostParallelism == Cardinality(InFlight) <= options.parallelism

\* C3 witness: the cap is reached by a reference waiting on its GET retry
\* while another remote reference has not been started.
C3_Witness ==
  /\ Cardinality(InFlight) = options.parallelism
  /\ \E link \in InFlight : Last(link).method = "GET"
  /\ \E link \in Probed : Len(reqs[link]) = 0

\* The request was answered with the status.
Answered(r, statusCode) == r.state = "response" /\ r.status = statusCode

\* C4: a HEAD request answered 405 is followed by a GET request for the same
\* reference, and a GET answered with a status outside 400-599 makes the
\* outcome valid: the reference is reported for no document.
C4_Head405RetriedAsGet ==
  \A link \in Links :
    /\ \A i \in Requests(link, "HEAD") :
         Answered(reqs[link][i], 405) =>
           Len(reqs[link]) > i /\ reqs[link][i + 1].method = "GET"
    /\ \A i \in Requests(link, "GET") :
         (reqs[link][i].state = "response" /\ reqs[link][i].status \notin 400..599) =>
           /\ Get(result, link) = Null
           /\ \A d \in Scanned : ~ReportedFor(d, link)

\* C4 witness: a finished run with a HEAD answered 405 and its GET answered 200.
C4_Witness ==
  /\ pc = "finished"
  /\ \E link \in Probed :
       /\ Len(reqs[link]) = 2
       /\ Answered(reqs[link][1], 405)
       /\ Answered(reqs[link][2], 200)
       /\ Get(result, link) = Null

\* C5: a reference gets at most two requests, a HEAD first and then at most
\* one GET, the GET only after the HEAD was answered 405; once a request has
\* failed, or was answered otherwise, or the GET got any result, it is the
\* last request of the reference.
C5_AtMostHeadThenGet ==
  \A link \in Links :
    /\ Len(reqs[link]) <= 2
    /\ Len(reqs[link]) >= 1 => reqs[link][1].method = "HEAD"
    /\ Len(reqs[link]) = 2 =>
         reqs[link][2].method = "GET" /\ Answered(reqs[link][1], 405)

\* C5 witness: the GET retry was itself answered 405 and probing has ended
\* with the outcome HTTP 405; another reference's HEAD failed.
C5_Witness ==
  /\ pc = "finished"
  /\ \E link \in Probed :
       /\ Len(reqs[link]) = 2
       /\ Answered(reqs[link][2], 405)
       /\ ErrorOutcome(link)
  /\ \E link \in Probed : Len(reqs[link]) = 1 /\ reqs[link][1].state = "error"

\* `HTTP <status>` for the status codes servers send here.
StatusText(statusCode) ==
  CASE statusCode = 200 -> << "H", "T", "T", "P", " ", "2", "0", "0" >>
    [] statusCode = 301 -> << "H", "T", "T", "P", " ", "3", "0", "1" >>
    [] statusCode = 399 -> << "H", "T", "T", "P", " ", "3", "9", "9" >>
    [] statusCode = 400 -> << "H", "T", "T", "P", " ", "4", "0", "0" >>
    [] statusCode = 405 -> << "H", "T", "T", "P", " ", "4", "0", "5" >>
    [] statusCode = 599 -> << "H", "T", "T", "P", " ", "5", "9", "9" >>
    [] statusCode = 600 -> << "H", "T", "T", "P", " ", "6", "0", "0" >>

\* The final response of a reference: the response to its last request, unless
\* that is a HEAD answered 405.
HasFinalResponse(link) ==
  /\ Len(reqs[link]) > 0
  /\ Last(link).state = "response"
  /\ ~(Last(link).method = "HEAD" /\ Last(link).status = 405)

\* C6: a reference whose final response has status s has the outcome error
\* with reason HTTP s exactly when 400 <= s <= 599 and the outcome valid
\* otherwise; no request follows the final response (a redirect is not
\* followed).
C6_ErrorBand ==
  \A link \in Links :
    HasFinalResponse(link) =>
      LET statusCode == Last(link).status
      IN /\ statusCode \in 400..599 => Get(result, link) = StatusText(statusCode)
         /\ statusCode \notin 400..599 => Get(result, link) = Null
         /\ \A i \in 1..(Len(reqs[link]) - 1) : Answered(reqs[link][i], 405)

\* C6 witness: a finished run with a reference answered 301 (valid) and a
\* reference answered 599 (reported).
C6_Witness ==
  /\ pc = "finished"
  /\ \E link \in Probed :
       HasFinalResponse(link) /\ Last(link).status = 301 /\ Get(result, link) = Null
  /\ \E link \in Probed :
       HasFinalResponse(link) /\ Last(link).status = 599 /\ ErrorOutcome(link)

\* A request of the reference failed at network level.
Failed(link) == Len(reqs[link]) > 0 /\ Last(link).state = "error"

NoResponse == << "n", "o", " ", "r", "e", "s", "p", "o", "n", "s", "e" >>

\* C7: a reference whose request failed at network level has the outcome
\* error, its reason the failure's message, or `no response` for an empty
\* message, and a finished run reports it for every document citing it.
C7_NetworkFailureIsReported ==
  \A link \in Links :
    Failed(link) =>
      LET reason == IF Last(link).message = << >> THEN NoResponse ELSE Last(link).message
      IN /\ Get(result, link) = reason
         /\ pc = "finished" =>
              \A d \in Citing(link) : ErrorLine(link, reason) \in ReportLines(d)

\* The socket of the reference's open request has timed out.
TimedOut(link) == Len(reqs[link]) > 0 /\ Last(link).state = "timeout"

\* No request of the run is waiting for its server any more.
Quiescent ==
  /\ pc # "idle"
  /\ \A link \in Links : Len(reqs[link]) > 0 => Last(link).state # "pending"

\* C8: once every open request has got its response, its error or has been
\* idle for options.timeout, every reference whose request timed out has an
\* error outcome and the completion callback has been called.
C8_TimeoutBecomesError ==
  Quiescent =>
    /\ \A link \in Links : TimedOut(link) => ErrorOutcome(link)
    /\ pc = "threw" \/ doneCalls # << >>

\* C9: a finished run in which a request failed at network level has
\* validated every cited, non-ignored reference and has ended with the link
\* report, which lists the failed reference and every other broken reference
\* for the documents citing them.
C9_NetworkFailureDoesNotAbort ==
  (pc = "finished" /\ \E link \in Links : Failed(link)) =>
    /\ \A link \in Cited : ~MatchesIgnore(link) => Has(result, link)
    /\ IsReport(doneCalls[1])
    /\ \A link \in Links :
         (Failed(link) \/ ErrorOutcome(link)) => \A d \in Citing(link) : ReportedFor(d, link)

\* C10: a reference matching an ignore pattern gets no request, no local
\* resolution, no outcome and no report line, however often it is cited; a
\* cited reference matching no pattern has its outcome when the run finishes.
C10_IgnoredNeverValidatedNorReported ==
  \A link \in Links :
    /\ MatchesIgnore(link) =>
         /\ reqs[link] = << >>
         /\ \A check \in localChecks : check[2] # link
         /\ ~Has(result, link)
         /\ \A d \in Scanned : ~ReportedFor(d, link)
    /\ (pc = "finished" /\ link \in Cited /\ ~MatchesIgnore(link)) => Has(result, link)

\* C10 witness: a finished run in which an ignored local reference is cited
\* from a document it does not resolve from, an ignored remote reference is
\* cited too, and nothing is reported.
C10_Witness ==
  /\ pc = "finished"
  /\ \E d \in Scanned :
       XPng \in CitedBy(d) /\ ~validLocal(normalizedFilenames, DocName(d), XPng)
  /\ MatchesIgnore(XPng)
  /\ \E link \in Cited : IsHttpRef(link) /\ MatchesIgnore(link)
  /\ doneCalls = << Undefined >>

\* The scheme of a reference as it is written (RFC 3986: a letter, then
\* letters, digits, "+", "-" and "." up to the first ":"), in lower case with
\* its colon; empty when the reference has none.
SchemeOf(link) == ToLower(SubSeq(link, 1, SchemeEnd(link)))

\* The references cited by some scanned document.
CitedLinks == {link \in AllLinks : Citing(link) # {}}
LocallyResolved(link) == \E check \in localChecks : check[2] = link

\* C11: a reference with scheme http or https is never resolved locally and
\* has got its HEAD request when the run has finished; a reference with any
\* other scheme gets no request and no local resolution, its outcome is valid
\* and it is reported for no document; a reference without a scheme gets no
\* request and has been resolved from every citing document when the run has
\* finished.
C11_DispatchByScheme ==
  \A link \in AllLinks :
    LET validated == pc = "finished" /\ link \in CitedLinks /\ ~MatchesIgnore(link)
    IN /\ SchemeOf(link) \in {HttpColon, HttpsColon} =>
            /\ ~LocallyResolved(link)
            /\ validated => Requests(link, "HEAD") # {}
       /\ SchemeOf(link) \notin {<< >>, HttpColon, HttpsColon} =>
            /\ reqs[link] = << >>
            /\ ~LocallyResolved(link)
            /\ Has(result, link) => Get(result, link) = Null
            /\ \A d \in Scanned : ~ReportedFor(d, link)
            /\ validated => Has(result, link)
       /\ SchemeOf(link) = << >> =>
            /\ reqs[link] = << >>
            /\ validated => \A d \in Citing(link) : << DocName(d), link >> \in localChecks

\* The ascending arrangement of a set of strings.
Smallest(S) == CHOOSE x \in S : \A y \in S : x = y \/ StrLess(x, y)
RECURSIVE Ascending(_)
Ascending(S) ==
  IF S = {} THEN << >> ELSE << Smallest(S) >> \o Ascending(S \ {Smallest(S)})

RECURSIVE Flatten(_)
Flatten(seqs) == IF seqs = << >> THEN << >> ELSE seqs[1] \o Flatten(Tail(seqs))

\* The citations of a scanned document whose reference has an error outcome,
\* and the report line of each.
BrokenCitations(i) == {j \in 1..Len(files[i].val) : ErrorOutcome(files[i].val[j])}
LineOf(i, j) == ErrorLine(files[i].val[j], Get(result, files[i].val[j]))

\* The lines of a document in ascending order, one per broken citation.
ExpectedLines(i) ==
  LET lines == Ascending({LineOf(i, j) : j \in BrokenCitations(i)})
      times(line) == Cardinality({j \in BrokenCitations(i) : LineOf(i, j) = line})
  IN Flatten([k \in 1..Len(lines) |-> [n \in 1..times(lines[k]) |-> lines[k]]])

ExpectedSection(i) ==
  DocName(i) \o << ":", "\n" >>
    \o Join([k \in 1..Len(ExpectedLines(i)) |-> << " ", " " >> \o ExpectedLines(i)[k]],
            << "\n" >>)

\* The report as the outcomes of the references alone determine it: the
\* documents with a broken citation in ascending order of their paths.
ExpectedReport ==
  LET names == Ascending({DocName(i) : i \in {d \in Scanned : BrokenCitations(d) # {}}})
      doc(k) == CHOOSE i \in Scanned : DocName(i) = names[k]
  IN BrokenLinksFound
       \o Join([k \in 1..Len(names) |-> ExpectedSection(doc(k))], << "\n", "\n" >>)

\* C12: the report string of a finished run is the one the file set and the
\* outcome of each reference determine, whatever the order in which the
\* outcomes arrived: sections in ascending order of document path, the lines
\* of a section in ascending order.
C12_ReportIndependentOfCompletionOrder ==
  (pc = "finished" /\ FailureSignalled) => doneCalls[1] = ExpectedReport

\* C12 witness: the document listed first in the file set sorts last, each
\* document cites one broken remote reference, and the reference cited by the
\* second document got its outcome first.
C12_Witness ==
  /\ pc = "finished" /\ FailureSignalled
  /\ files[1].val = << HttpA >> /\ files[2].val = << HttpsB >>
  /\ Keys(result) = << HttpsB, HttpA >>
  /\ ErrorOutcome(HttpA) /\ ErrorOutcome(HttpsB)
  /\ StrLess(DocName(2), DocName(1))

\* The validator delivered a reason for the reference (validationError is a
\* string), respectively delivered null.
OutcomeIsError(link) == Has(result, link) /\ Get(result, link) # Null
OutcomeIsValid(link) == Has(result, link) /\ Get(result, link) = Null

\* The report handed to done has a section for the document.
HasSection(d) ==
  /\ FailureSignalled
  /\ Includes(doneCalls[1], << "\n", "\n" >> \o DocName(d) \o << ":", "\n" >>)

\* C13: when the run has finished, the report has a section for a scanned
\* document exactly when the document cites a non-ignored reference whose
\* outcome is an error; the section has the line `<reference> (<reason>)` of
\* every such reference and no line of a reference whose outcome is valid.
C13_SectionIffBrokenCitation ==
  pc = "finished" =>
    \A d \in Scanned :
      LET broken == {link \in CitedBy(d) : ~MatchesIgnore(link) /\ OutcomeIsError(link)}
      IN /\ HasSection(d) <=> broken # {}
         /\ Has(filenamesToLinkErrors, DocName(d)) <=> broken # {}
         /\ \A link \in broken : ErrorLine(link, Get(result, link)) \in ReportLines(d)
         /\ \A link \in CitedBy(d) : OutcomeIsValid(link) => ~ReportedFor(d, link)

\* The reference without its trailing fragment.
WithoutFragment(dest) ==
  IF \E i \in 1..Len(dest) : dest[i] = "#"
  THEN SubSeq(dest, 1, (CHOOSE i \in 1..Len(dest) :
                          dest[i] = "#" /\ \A j \in 1..(i - 1) : dest[j] # "#") - 1)
  ELSE dest

\* The reference denotes the citing document or its own directory.
SelfReference(src, dest) ==
  LET target == WithoutFragment(dest)
  IN \/ target \in {<< >>, << "." >>, << ".", "/" >>}
     \/ join(dirname(src), target) = dirname(src)

LocalRefs == {link \in CitedLinks : SchemeOf(link) = << >> /\ ~MatchesIgnore(link)}

\* C14: every self-reference is resolved as valid from its citing document,
\* and a reference that is a self-reference from every document citing it
\* has the outcome valid and is reported for none of them.
C14_SelfReferenceAlwaysValid ==
  /\ \A check \in localChecks :
       SelfReference(check[1], check[2]) =>
         validLocal(normalizedFilenames, check[1], check[2])
  /\ pc = "finished" =>
       \A link \in LocalRefs :
         (\A d \in Citing(link) : SelfReference(DocName(d), link)) =>
           OutcomeIsValid(link) /\ \A d \in Scanned : ~ReportedFor(d, link)

\* The paths of all input files, separators normalized.
Paths == {NormalizeSeparators(files[i].key) : i \in 1..Len(files)}

\* The reference, joined onto the directory of the citing document, is the
\* path of an input file, or is so when followed by /index.html.
Resolves(src, dest) ==
  LET target == join(dirname(src), WithoutFragment(dest))
      index == IF target[Len(target)] = "/" THEN target \o IndexHtml
               ELSE target \o << "/" >> \o IndexHtml
  IN target \in Paths \/ index \in Paths

\* C15: a local reference that is no self-reference is resolved as valid
\* from a citing document exactly when it resolves to an input file or to the
\* index document of a directory; cited by one document, that is its outcome.
C15_NonSelfValidIffFileOrIndex ==
  /\ \A check \in localChecks :
       ~SelfReference(check[1], check[2]) =>
         (validLocal(normalizedFilenames, check[1], check[2])
            <=> Resolves(check[1], check[2]))
  /\ pc = "finished" =>
       \A link \in LocalRefs :
         \A d \in Citing(link) :
           (Citing(link) = {d} /\ ~SelfReference(DocName(d), link)) =>
             /\ Has(result, link)
             /\ OutcomeIsValid(link) <=> Resolves(DocName(d), link)
             /\ ReportedFor(d, link) <=> ~Resolves(DocName(d), link)

\* The paths of the documents citing the reference, in the order in which
\* the documents are first seen, each once.
CitingInOrder(link) ==
  LET docs == SelectSeq([i \in 1..Len(files) |-> i], LAMBDA i : i \in Citing(link))
  IN [k \in 1..Len(docs) |-> DocName(docs[k])]

\* C16: once the index is built, every cited reference that is not ignored
\* is the key of exactly one entry, whose value lists the citing documents
\* in first-seen order, each document once.
C16_IndexListsEachCitingDocumentOnce ==
  pc \in {"running", "finished"} =>
    \A link \in CitedLinks :
      ~MatchesIgnore(link) =>
        /\ Cardinality({i \in 1..Len(linksToFilenames) : linksToFilenames[i].key = link}) = 1
        /\ Get(linksToFilenames, link) # << >>
        /\ Get(linksToFilenames, link) = CitingInOrder(link)

\* The plugin function has been called a second time.
SecondRun == previous # << >>

\* C17: the second run of a plugin instance on the same files, its requests
\* answered as in the first run, ends as the first run ended: with the same
\* calls of done, or with the same exception; it validates the references
\* the first run validated.
C17_SecondRunSameResult ==
  SecondRun =>
    /\ \A link \in AllLinks : reqs[link] # << >> => previous[1].reqs[link] # << >>
    /\ previous[1].pc = "threw" => pc = "threw"
    /\ pc = "finished" => doneCalls = previous[1].doneCalls
    /\ (pc = "running" /\ previous[1].pc = "finished") =>
         \E link \in AllLinks : Len(reqs[link]) > 0 /\ Last(link).state = "pending"

\* C17 witness: both runs have ended with the same report, with an ignore
\* pattern configured that matches a cited reference.
C17_Witness ==
  /\ SecondRun /\ pc = "finished"
  /\ FailureSignalled /\ doneCalls = previous[1].doneCalls
  /\ options.ignore # << >>
  /\ \E link \in CitedLinks : MatchesIgnore(link)

\* One of the configured ignore patterns is no regular expression.
InvalidIgnorePattern ==
  \E i \in 1..Len(options.ignore) : RegExpThrows(options.ignore[i].source)

\* C18: with an invalid ignore pattern configured, the call of the plugin
\* function ends by throwing; no request is issued, no reference is resolved
\* locally, no outcome is recorded and done is never called.
C18_InvalidIgnorePatternAborts ==
  (InvalidIgnorePattern /\ pc # "idle") =>
    /\ pc = "threw"
    /\ \A link \in AllLinks : reqs[link] = << >>
    /\ localChecks = {}
    /\ result = << >>
    /\ filenamesToLinkErrors = << >>
    /\ doneCalls = << >>

\* C18 witness: the plugin function threw with a local reference and a
\* remote reference cited, the invalid pattern not being the first one.
C18_Witness ==
  /\ pc = "threw"
  /\ XPng \in CitedLinks
  /\ \E link \in CitedLinks : IsHttpRef(link)
  /\ ~RegExpThrows(options.ignore[1].source)
  /\ doneCalls = << >>

\* C20: done is never called a second time, and a finished run has called
\* it exactly once: with the report when a scanned document has a report
\* line, with no argument otherwise.
C20_DoneCalledExactlyOnce ==
  /\ Len(doneCalls) <= 1
  /\ pc = "finished" =>
       /\ Len(doneCalls) = 1
       /\ IF \E d \in Scanned : ReportLines(d) # {}
          THEN IsReport(doneCalls[1])
          ELSE doneCalls[1] = Undefined

\* C22: when the run has finished, a scanned document is reported for a
\* reference without a scheme only if the local resolver finds the reference
\* invalid from that document.
C22_LocalReportedOnlyWhereUnresolved ==
  pc = "finished" =>
    \A d \in Scanned :
      \A link \in CitedBy(d) :
        (SchemeOf(link) = << >> /\ ReportedFor(d, link)) =>
          ~validLocal(normalizedFilenames, DocName(d), link)

\* The reference ends with a fragment.
HasFragment(dest) == \E i \in 1..Len(dest) : dest[i] = "#"

\* C24: a reference p#f is resolved as valid from a citing document exactly
\* when p alone is, whatever f holds, and cited by one document that is its
\* outcome; a reference with a query string and no fragment is valid exactly
\* when it resolves, query included, to an input file.
C24_FragmentIgnoredQueryKept ==
  /\ \A check \in localChecks :
       /\ HasFragment(check[2]) =>
            (validLocal(normalizedFilenames, check[1], check[2])
               <=> validLocal(normalizedFilenames, check[1], WithoutFragment(check[2])))
       /\ ~HasFragment(check[2]) /\ ~SelfReference(check[1], check[2]) =>
            (validLocal(normalizedFilenames, check[1], check[2])
               <=> Resolves(check[1], check[2]))
  /\ pc = "finished" =>
       \A link \in LocalRefs :
         \A d \in Citing(link) :
           (Citing(link) = {d} /\ HasFragment(link)) =>
             (OutcomeIsValid(link)
                <=> validLocal(normalizedFilenames, DocName(d), WithoutFragment(link)))

\* The outcomes that the requests of the reference themselves account for.
OwnOutcomes(link) ==
  {Null}
    \cup {HttpReason(reqs[link][i].status) :
            i \in {j \in 1..Len(reqs[link]) : reqs[link][j].state = "response"}}
    \cup {reqs[link][i].message :
            i \in {j \in 1..Len(reqs[link]) :
                     reqs[link][j].state \in {"error", "responseThenError"}}}

\* C21: the callback of a reference is never called a second time; a slot
\* exists exactly for the references whose callback was called; a finished
\* run has called the callback of every cited reference that is not ignored;
\* and the slot of a probed reference holds an outcome of its own requests.
C21_SlotWrittenOncePerReference ==
  /\ \A link \in AllLinks :
       /\ callbackCalls[link] <= 1
       /\ Has(result, link) <=> callbackCalls[link] = 1
       /\ (Has(result, link) /\ reqs[link] # << >>) => Get(result, link) \in OwnOutcomes(link)
  /\ pc = "finished" =>
       \A link \in CitedLinks : ~MatchesIgnore(link) => callbackCalls[link] = 1

\* A request of the run is still awaiting its response.
ProbeInFlight ==
  \E link \in AllLinks : \E i \in 1..Len(reqs[link]) : reqs[link][i].state = "pending"

\* Every request the run issued has responded or failed, and the run was
\* not aborted by an exception.
AllProbesSettled ==
  /\ pc \in {"running", "finished"}
  /\ \A link \in AllLinks : \A i \in 1..Len(reqs[link]) :
       reqs[link][i].state \in {"response", "error", "responseThenError"}

\* C23: done is invoked only when every cited reference that is not ignored
\* has its outcome and no request of the run is in flight, and once every
\* request has responded or failed, done has been invoked.
C23_DoneOnlyAfterEveryProbe ==
  /\ doneCalls # << >> =>
       /\ ~ProbeInFlight
       /\ \A link \in CitedLinks : ~MatchesIgnore(link) => Has(result, link)
  /\ AllProbesSettled => doneCalls # << >>

====
